---- MODULE Spec2Model ----
(***************************************************************************)
(* josim_tools/tools.py: run(), the command line driver.  run() loads and  *)
(* validates a configuration, then dispatches on configuration["mode"] to  *)
(* one of four workflows (verify, margin, yield, optimize).                *)
(*                                                                         *)
(* The collaborators Verifier, MarginAnalysis, YieldAnalysis, Optimizer,   *)
(* the *Configuration.from_dict classes and print_margin_analysis_result   *)
(* live in sibling modules (.verify, .analysis, .optimize, .configuration) *)
(* whose code is not at hand; they are modelled from their contracts in    *)
(* spec.md (sections 3, 4, 6).                                             *)
(***************************************************************************)
EXTENDS Integers, Sequences, FiniteSets, TLC

(* ------------------------------ bounds -------------------------------- *)
MaxParams == 2
MaxSamples == 3
MaxCpu == 2

ParamNames == {"B1", "L1", "R1"}
Values == {1, 2}
KnownModes == {"verify", "margin", "yield", "optimize"}
\* "sweep" stands for any mode string other than the four the code tests for
ModeStrings == KnownModes \cup {"sweep"}

VARIABLES
    pc,              \* position of run()
    cpus,            \* what multiprocessing.cpu_count() returns on this host
    configuration,   \* the dict toml_load returned (<<>> before that)
    exit_status,     \* process exit status once run() has ended (<<>> before)
    stdout,          \* lines printed, in order
    stderr,          \* uncaught-exception tracebacks
    calls,           \* collaborator calls and returns made by run(), in order
    output,          \* what Verifier.verify returned
    analyse_args,    \* arguments of each MarginAnalysis.analyse call
    result,          \* what MarginAnalysis.analyse returned
    printed_result,  \* results handed to print_margin_analysis_result
    margin_tasks,    \* worker-pool tasks dispatched by MarginAnalysis.analyse
    sample_args,     \* arguments of each YieldAnalysis.sample call
    sample_outcome,  \* pass/fail of each drawn sample
    pending,         \* samples not yet picked up by a worker
    running,         \* samples being evaluated by a worker
    num_success,     \* YieldAnalysis accumulator
    num_total,       \* YieldAnalysis accumulator
    yield_report,    \* format arguments of the "Yield: ..." line
    optimize_arg,    \* arguments of each Optimizer.optimize call
    optimized_point, \* what Optimizer.optimize returned
    written          \* points handed to write_file_with_updated_parameters

ioVars == <<stdout, stderr, exit_status>>
verifyVars == <<output>>
marginVars == <<analyse_args, result, printed_result, margin_tasks>>
yieldVars == <<sample_args, sample_outcome, pending, running, num_success,
               num_total, yield_report>>
optVars == <<optimize_arg, optimized_point, written>>
vars == <<pc, cpus, configuration, calls, ioVars, verifyVars, marginVars,
          yieldVars, optVars>>

(* --------------------------- python helpers --------------------------- *)
Min(a, b) == IF a <= b THEN a ELSE b

Range(s) == {s[i] : i \in DOMAIN s}

\* An insertion-ordered dict: the key list and the key -> value function.
EmptyDict == [keys |-> <<>>, val |-> <<>>]

DictSet(d, k, v) ==
    IF k \in Range(d.keys)
    THEN [keys |-> d.keys, val |-> [x \in DOMAIN d.val |-> IF x = k THEN v ELSE d.val[x]]]
    ELSE [keys |-> Append(d.keys, k), val |-> (k :> v) @@ d.val]

DictLen(d) == Len(d.keys)

\* list.index(key): the first position holding key
ListIndex(keys_, key) ==
    CHOOSE i \in 1..Len(keys_) :
        /\ keys_[i] = key
        /\ \A j \in 1..(i - 1) : keys_[j] # key

\* sequences over S with no repeated element, of length at most n
InjectiveSeqs(S, n) ==
    UNION {{s \in [1..m -> S] : \A i, j \in 1..m : i # j => s[i] # s[j]} : m \in 0..n}

(* ------------------------- configuration input ------------------------ *)
\* configuration["parameters"]: name -> table with a "nominal" entry
ParameterTables ==
    UNION {{[keys |-> ks, val |-> f] : f \in [Range(ks) -> [nominal : Values]]} :
           ks \in InjectiveSeqs(ParamNames, MaxParams)}

\* optimize.output: an optional path (<<>> is None)
OutputChoices == {<<>>, <<"out.cir">>}

\* The dicts toml_load can return.  schema_valid is the verdict jsonschema
\* gives on the dict; a block a mode never reads is held at one value.
Configurations ==
    {[schema_valid |-> sv, mode |-> m, parameters |-> p, num_samples |-> n, output |-> o] :
        sv \in BOOLEAN, m \in ModeStrings, p \in ParameterTables,
        n \in 0..MaxSamples, o \in OutputChoices}

ReadsParameters(m) == m \in {"margin", "yield", "optimize"}

RelevantConfigurations ==
    {c \in Configurations :
        /\ (~ReadsParameters(c.mode) => c.parameters = EmptyDict)
        /\ (c.mode # "yield" => c.num_samples = 0)
        /\ (c.mode # "optimize" => c.output = <<>>)}

(* ------------------- collaborators (sibling modules) ------------------ *)
\* XxxParameterConfiguration.from_dict(item): an object with .nominal
FromDict(item) == [nominal |-> item.nominal]

\* VerificationOutcome: passed, optional failure_time, optional failure_point;
\* a passing outcome carries no failure data.
VerificationOutcomes ==
    {o \in [passed : BOOLEAN, failure_time : {<<>>, <<1>>}, failure_point : {<<>>, <<2>>}] :
        o.passed => (o.failure_time = <<>> /\ o.failure_point = <<>>)}

\* bool(output)
Truthy(o) == o.passed

\* MarginAnalysis.analyse: two direction searches per parameter, each one
\* worker-pool task
MarginTaskCount(point) == 2 * DictLen(point)

\* MarginResult: per parameter a lower and an upper bound around the analysed
\* value; lo and hi are the margins the searches found.
MarginResultOf(point, lo, hi) ==
    [k \in Range(point.keys) |-> [lower_bound |-> point.val[k] - lo,
                                  upper_bound |-> point.val[k] + hi]]

\* YieldAnalysis.percentage() * 100 as printed with one decimal, in tenths
PercentTenths(success, total) ==
    IF total = 0 THEN 0 ELSE (success * 1000) \div total

\* Optimizer.optimize(initial): a vector aligned with initial's key order
OptimizerOutputs(initial) == [1..DictLen(initial) -> Values]

(* ------------------------- run(): pure pieces ------------------------- *)
RECURSIVE BuildFrom(_, _, _)
\* for key, item in table.items(): acc[key] = from_dict(item)
BuildFrom(table, i, acc) ==
    IF i > Len(table.keys) THEN acc
    ELSE BuildFrom(table, i + 1,
                   DictSet(acc, table.keys[i], FromDict(table.val[table.keys[i]])))

BuildParameters(table) == BuildFrom(table, 1, EmptyDict)

RECURSIVE NominalsFrom(_, _, _)
\* for key, item in parameters.items(): acc[key] = item.nominal
NominalsFrom(parameters, i, acc) ==
    IF i > Len(parameters.keys) THEN acc
    ELSE NominalsFrom(parameters, i + 1,
                      DictSet(acc, parameters.keys[i],
                              parameters.val[parameters.keys[i]].nominal))

NominalVector(parameters) == NominalsFrom(parameters, 1, EmptyDict)

Reverse(seq) == [i \in 1..Len(seq) |-> seq[Len(seq) + 1 - i]]

\* faulty variant of KeyList (C6): a key list taken in another order than the one fed to the optimizer
C6_Mutant_KeyList(optimize_parameters) == Reverse(optimize_parameters.keys)

\* keys_ = list(optimize_parameters.keys())
KeyList(optimize_parameters) == optimize_parameters.keys

RECURSIVE ReassociateFrom(_, _, _, _)
\* for index, key in enumerate(keys_):
\*     index = keys_.index(key); acc[key] = optimized_point[index]
\* (python positions are 0-based, the sequences here 1-based)
ReassociateFrom(keys_, point, i, acc) ==
    IF i > Len(keys_) THEN acc
    ELSE ReassociateFrom(keys_, point, i + 1,
                         DictSet(acc, keys_[i], point[ListIndex(keys_, keys_[i])]))

Reassociate(optimize_parameters, point) ==
    ReassociateFrom(KeyList(optimize_parameters), point, 1, EmptyDict)

\* faulty variant of MarginNumThreads (C3): one worker per parameter instead of one per direction search
C3_Mutant_NumThreads(margin_parameters, cpu_count) ==
    Min(DictLen(margin_parameters), cpu_count)

\* faulty variant of MarginNumThreads (C5): a pool that always holds at least one worker
C5_Mutant_NumThreads(margin_parameters, cpu_count) ==
    IF DictLen(margin_parameters) = 0 THEN 1
    ELSE Min(2 * DictLen(margin_parameters), cpu_count)

\* num_threads = min(2 * len(margin_parameters), cpu_count())
MarginNumThreads(margin_parameters, cpu_count) ==
    Min(2 * DictLen(margin_parameters), cpu_count)

\* faulty variant of YieldNumSamples (C9): sample() called with the worker count where the sample count belongs
C9_Mutant_NumSamples(config) == Min(config.num_samples, cpus)

\* num_samples = yield_configuration.num_samples
YieldNumSamples(config) == config.num_samples

\* faulty variant of YieldNumThreads (C4): a pool sized by the hardware alone
C4_Mutant_NumThreads(num_samples, cpu_count) == cpu_count

\* num_threads = min(num_samples, cpu_count())
YieldNumThreads(num_samples, cpu_count) == Min(num_samples, cpu_count)

\* faulty variant of ShouldWrite (C8): a writer called whether or not an output path is configured
C8_Mutant_ShouldWrite(output_file) == TRUE

\* if output_file is not None
ShouldWrite(output_file) == output_file # <<>>

\* faulty variant of Dispatch (C10): a chain whose yield test leads into the margin branch
C10_Mutant_Dispatch(mode) ==
    IF mode = "verify" THEN "verify"
    ELSE IF mode = "margin" \/ mode = "yield" THEN "margin"
    ELSE IF mode = "optimize" THEN "optimize"
    ELSE "unreachable"

\* the if / elif chain on mode
Dispatch(mode) ==
    IF mode = "verify" THEN "verify"
    ELSE IF mode = "margin" THEN "margin"
    ELSE IF mode = "yield" THEN "yield"
    ELSE IF mode = "optimize" THEN "optimize"
    ELSE "unreachable"

\* faulty variant of ValidationExitStatus (C1): a validation handler that ends with exit(0)
C1_Mutant_ExitZero == 0 % 256

\* exit(-1) as the process status the shell sees
ValidationExitStatus == (-1) % 256

\* faulty variant of VerifyReport (C2): a report that tests "output is not None" instead of its truth value
C2_Mutant_VerifyReport(o) == <<"SUCCESS">>

\* the lines the verify branch prints for an outcome
VerifyReport(o) ==
    IF Truthy(o) THEN <<"SUCCESS">>
    ELSE <<"FAILURE">>
         \o (IF o.failure_time # <<>> THEN <<"  TIME  : {}">> ELSE <<>>)
         \o (IF o.failure_point # <<>> THEN <<"  optimized_point : {}">> ELSE <<>>)

(* ------------------------------- run() -------------------------------- *)
Init ==
    /\ pc = "start"
    /\ cpus \in 1..MaxCpu
    /\ configuration = <<>>
    /\ exit_status = <<>>
    /\ stdout = <<>>
    /\ stderr = <<>>
    /\ calls = <<>>
    /\ output = <<>>
    /\ analyse_args = <<>>
    /\ result = <<>>
    /\ printed_result = <<>>
    /\ margin_tasks = 0
    /\ sample_args = <<>>
    /\ sample_outcome = <<>>
    /\ pending = {}
    /\ running = {}
    /\ num_success = 0
    /\ num_total = 0
    /\ yield_report = <<>>
    /\ optimize_arg = <<>>
    /\ optimized_point = <<>>
    /\ written = <<>>

\* an exception nobody catches: traceback on stderr, interpreter status 1
Raise(exception) ==
    /\ pc' = "exited"
    /\ stderr' = Append(stderr, exception)
    /\ exit_status' = <<1>>

\* run() falls off its end: interpreter status 0
Return ==
    /\ pc' = "done"
    /\ exit_status' = <<0>>

\* print the banner, toml_load returns a dict
LoadConfiguration ==
    /\ pc = "start"
    /\ \E c \in RelevantConfigurations : configuration' = c
    /\ stdout' = Append(stdout, "JoSIM Tools {version}")
    /\ pc' = "validate"
    /\ UNCHANGED <<cpus, calls, stderr, exit_status, verifyVars, marginVars,
                   yieldVars, optVars>>

\* print the banner, toml_load raises on a file that is not TOML
LoadMalformed ==
    /\ pc = "start"
    /\ stdout' = Append(stdout, "JoSIM Tools {version}")
    /\ Raise("TomlDecodeError")
    /\ UNCHANGED <<cpus, configuration, calls, verifyVars, marginVars,
                   yieldVars, optVars>>

\* schema_validate raises SchemaValidationError: two lines and exit(-1)
ValidateFails ==
    /\ pc = "validate"
    /\ ~configuration.schema_valid
    /\ stdout' = stdout \o <<"ERROR: configuration file validation failed",
                             "       reason: {}">>
    /\ exit_status' = <<ValidationExitStatus>>
    /\ pc' = "exited"
    /\ UNCHANGED <<cpus, configuration, calls, stderr, verifyVars, marginVars,
                   yieldVars, optVars>>

\* schema_validate returns
ValidatePasses ==
    /\ pc = "validate"
    /\ configuration.schema_valid
    /\ pc' = "dispatch"
    /\ UNCHANGED <<cpus, configuration, calls, ioVars, verifyVars, marginVars,
                   yieldVars, optVars>>

\* mode == "verify": header, Verifier(...), verifier.verify() entered
VerifyStart ==
    /\ pc = "dispatch"
    /\ Dispatch(configuration.mode) = "verify"
    /\ stdout' = Append(stdout, "=== Verify circuit operation ===")
    /\ calls' = calls \o <<"Verifier", "Verifier.verify">>
    /\ pc' = "verifying"
    /\ UNCHANGED <<cpus, configuration, stderr, exit_status, verifyVars,
                   marginVars, yieldVars, optVars>>

\* verifier.verify() returns an outcome; report it and return
VerifyReturn ==
    /\ pc = "verifying"
    /\ \E o \in VerificationOutcomes :
        /\ output' = o
        /\ stdout' = stdout \o VerifyReport(o)
    /\ calls' = Append(calls, "Verifier.verify:return")
    /\ Return
    /\ UNCHANGED <<cpus, configuration, stderr, marginVars, yieldVars, optVars>>

\* the external simulator cannot be run: verifier.verify() raises
VerifyRaises ==
    /\ pc = "verifying"
    /\ Raise("SimulationError")
    /\ UNCHANGED <<cpus, configuration, calls, stdout, verifyVars, marginVars,
                   yieldVars, optVars>>

\* mode == "margin": header, MarginAnalysis(...), analyse(nominals, num_threads)
MarginStart ==
    /\ pc = "dispatch"
    /\ Dispatch(configuration.mode) = "margin"
    /\ stdout' = Append(stdout, "=== Margin analysis ===")
    /\ LET margin_parameters == BuildParameters(configuration.parameters)
           num_threads == MarginNumThreads(margin_parameters, cpus)
           margin_analysis_parameters == NominalVector(margin_parameters)
       IN analyse_args' = Append(analyse_args,
                                 [point |-> margin_analysis_parameters,
                                  num_threads |-> num_threads])
    /\ calls' = calls \o <<"MarginAnalysis", "MarginAnalysis.analyse">>
    /\ pc' = "analysing"
    /\ UNCHANGED <<cpus, configuration, stderr, exit_status, verifyVars,
                   result, printed_result, margin_tasks, yieldVars, optVars>>

\* analyse() returns its MarginResult; print_margin_analysis_result; return
AnalyseReturn ==
    /\ pc = "analysing"
    /\ LET point == analyse_args[Len(analyse_args)].point
       IN /\ \E lo \in 0..1, hi \in 0..1 :
                /\ result' = MarginResultOf(point, lo, hi)
                /\ printed_result' = Append(printed_result, MarginResultOf(point, lo, hi))
          /\ margin_tasks' = margin_tasks + MarginTaskCount(point)
    /\ calls' = calls \o <<"MarginAnalysis.analyse:return", "print_margin_analysis_result">>
    /\ Return
    /\ UNCHANGED <<cpus, configuration, stdout, stderr, verifyVars, analyse_args,
                   yieldVars, optVars>>

\* mode == "yield": header, YieldAnalysis(...), sample(num_samples, num_threads)
\* entered; the samples are drawn and each has its pass/fail outcome
YieldStart ==
    /\ pc = "dispatch"
    /\ Dispatch(configuration.mode) = "yield"
    /\ stdout' = Append(stdout, "=== Yield analysis ===")
    /\ LET yield_parameters == BuildParameters(configuration.parameters)
           num_samples == YieldNumSamples(configuration)
           num_threads == YieldNumThreads(num_samples, cpus)
       IN /\ sample_args' = Append(sample_args,
                                   [parameters |-> yield_parameters,
                                    num_samples |-> num_samples,
                                    num_threads |-> num_threads])
          /\ pending' = 1..num_samples
          /\ \E outcomes \in [1..num_samples -> BOOLEAN] : sample_outcome' = outcomes
    /\ running' = {}
    /\ num_success' = 0
    /\ num_total' = 0
    /\ calls' = calls \o <<"YieldAnalysis", "YieldAnalysis.sample">>
    /\ pc' = "sampling"
    /\ UNCHANGED <<cpus, configuration, stderr, exit_status, verifyVars,
                   marginVars, yield_report, optVars>>

\* a free worker of the pool picks up a pending sample
WorkerTake ==
    /\ pc = "sampling"
    /\ Cardinality(running) < sample_args[Len(sample_args)].num_threads
    /\ \E i \in pending :
        /\ pending' = pending \ {i}
        /\ running' = running \cup {i}
    /\ UNCHANGED <<pc, cpus, configuration, calls, ioVars, verifyVars, marginVars,
                   sample_args, sample_outcome, num_success, num_total,
                   yield_report, optVars>>

\* a worker finishes its sample; the outcome is added to the counts
WorkerDone ==
    /\ pc = "sampling"
    /\ \E i \in running :
        /\ running' = running \ {i}
        /\ num_total' = num_total + 1
        /\ num_success' = num_success + (IF sample_outcome[i] THEN 1 ELSE 0)
    /\ UNCHANGED <<pc, cpus, configuration, calls, ioVars, verifyVars, marginVars,
                   sample_args, sample_outcome, pending, yield_report, optVars>>

\* every sample is counted: sample() returns, the Yield line is printed
SampleReturn ==
    /\ pc = "sampling"
    /\ pending = {}
    /\ running = {}
    /\ yield_report' = <<num_success, num_total, PercentTenths(num_success, num_total)>>
    /\ stdout' = Append(stdout, "Yield: {} / {} = {:.1f} %")
    /\ calls' = Append(calls, "YieldAnalysis.sample:return")
    /\ Return
    /\ UNCHANGED <<cpus, configuration, stderr, verifyVars, marginVars,
                   sample_args, sample_outcome, pending, running, num_success,
                   num_total, optVars>>

\* mode == "optimize": header, Optimizer(...), optimize(nominals) entered
OptimizeStart ==
    /\ pc = "dispatch"
    /\ Dispatch(configuration.mode) = "optimize"
    /\ stdout' = Append(stdout, "=== Optimize circuit ===")
    /\ LET optimize_parameters == BuildParameters(configuration.parameters)
           optimization_parameters == NominalVector(optimize_parameters)
       IN optimize_arg' = Append(optimize_arg, optimization_parameters)
    /\ calls' = calls \o <<"Optimizer", "Optimizer.optimize">>
    /\ pc' = "optimizing"
    /\ UNCHANGED <<cpus, configuration, stderr, exit_status, verifyVars,
                   marginVars, yieldVars, optimized_point, written>>

\* optimizer.optimize() returns the optimized point
OptimizeReturn ==
    /\ pc = "optimizing"
    /\ optimized_point' \in OptimizerOutputs(optimize_arg[Len(optimize_arg)])
    /\ calls' = Append(calls, "Optimizer.optimize:return")
    /\ pc' = "optimized"
    /\ UNCHANGED <<cpus, configuration, ioVars, verifyVars, marginVars,
                   yieldVars, optimize_arg, written>>

\* output_file is None, or write_file_with_updated_parameters returns
WriteOutput ==
    /\ pc = "optimized"
    /\ IF ShouldWrite(configuration.output)
       THEN /\ written' = Append(written, optimized_point)
            /\ calls' = Append(calls, "write_file_with_updated_parameters")
       ELSE UNCHANGED <<written, calls>>
    /\ pc' = "final_margin"
    /\ UNCHANGED <<cpus, configuration, ioVars, verifyVars, marginVars,
                   yieldVars, optimize_arg, optimized_point>>

\* write_file_with_updated_parameters raises: the path cannot be written
WriteRaises ==
    /\ pc = "optimized"
    /\ ShouldWrite(configuration.output)
    /\ written' = Append(written, optimized_point)
    /\ calls' = Append(calls, "write_file_with_updated_parameters")
    /\ Raise("OSError")
    /\ UNCHANGED <<cpus, configuration, stdout, verifyVars, marginVars,
                   yieldVars, optimize_arg, optimized_point>>

\* second header, MarginAnalysis(...), the optimized point re-associated with
\* the parameter names, analyse(point, num_threads) entered
FinalMarginStart ==
    /\ pc = "final_margin"
    /\ stdout' = Append(stdout, "=== Optimized circuit margin analysis ===")
    /\ LET optimize_parameters == BuildParameters(configuration.parameters)
           margin_parameters == BuildParameters(configuration.parameters)
           num_threads == MarginNumThreads(margin_parameters, cpus)
           margin_analysis_parameters == Reassociate(optimize_parameters, optimized_point)
       IN analyse_args' = Append(analyse_args,
                                 [point |-> margin_analysis_parameters,
                                  num_threads |-> num_threads])
    /\ calls' = calls \o <<"MarginAnalysis", "MarginAnalysis.analyse">>
    /\ pc' = "analysing"
    /\ UNCHANGED <<cpus, configuration, stderr, exit_status, verifyVars,
                   result, printed_result, margin_tasks, yieldVars, optVars>>

\* else: assert False, "INTERNAL ERROR: UNREACHABLE CODE in tools.py"
Unreachable ==
    /\ pc = "dispatch"
    /\ Dispatch(configuration.mode) = "unreachable"
    /\ Raise("AssertionError")
    /\ UNCHANGED <<cpus, configuration, calls, stdout, verifyVars, marginVars,
                   yieldVars, optVars>>

Next ==
    \/ LoadConfiguration
    \/ LoadMalformed
    \/ ValidateFails
    \/ ValidatePasses
    \/ VerifyStart
    \/ VerifyReturn
    \/ VerifyRaises
    \/ MarginStart
    \/ AnalyseReturn
    \/ YieldStart
    \/ WorkerTake
    \/ WorkerDone
    \/ SampleReturn
    \/ OptimizeStart
    \/ OptimizeReturn
    \/ WriteOutput
    \/ WriteRaises
    \/ FinalMarginStart
    \/ Unreachable

Spec == Init /\ [][Next]_vars

(* ======================= properties of run() ========================== *)
\* toml_load raised
Malformed == "TomlDecodeError" \in Range(stderr)

\* toml_load returned: configuration holds the dict
Loaded == pc # "start" /\ ~Malformed

Mode == IF Loaded THEN configuration.mode ELSE "none"

SchemaInvalid == Loaded /\ ~configuration.schema_valid

NonZero(status) == \E n \in 1..255 : status = <<n>>

\* first position of event e in the call log, 0 when absent
CallIndex(e) ==
    IF e \in Range(calls)
    THEN CHOOSE i \in 1..Len(calls) : calls[i] = e /\ \A j \in 1..(i - 1) : calls[j] # e
    ELSE 0

CallCount(e) == Cardinality({i \in 1..Len(calls) : calls[i] = e})

CoreComponents == {"Verifier", "MarginAnalysis", "YieldAnalysis", "Optimizer",
                   "write_file_with_updated_parameters"}

ComponentsUsed == Range(calls) \cap CoreComponents

\* C1: a malformed or schema-invalid configuration ends the run with a
\* non-zero exit status and a printed reason, and no Verifier, MarginAnalysis,
\* YieldAnalysis or Optimizer is constructed or called on that run.
C1_ConfigErrorBeforeCore ==
    /\ SchemaInvalid =>
          /\ calls = <<>>
          /\ pc \in {"validate", "exited"}
          /\ pc = "exited" =>
                /\ NonZero(exit_status)
                /\ "       reason: {}" \in Range(stdout)
    /\ Malformed =>
          /\ calls = <<>>
          /\ pc = "exited"
          /\ NonZero(exit_status)

C1_Witness ==
    /\ SchemaInvalid
    /\ pc = "exited"
    /\ exit_status = <<255>>

\* the analysis the mode selects has returned to run()
AnalysisCompleted ==
    \/ Mode = "verify" /\ "Verifier.verify:return" \in Range(calls)
    \/ Mode = "margin" /\ "MarginAnalysis.analyse:return" \in Range(calls)
    \/ Mode = "yield" /\ "YieldAnalysis.sample:return" \in Range(calls)
    \/ Mode = "optimize" /\ "MarginAnalysis.analyse:return" \in Range(calls)

\* C2: a run whose selected analysis completes ends with exit status 0
\* whatever the result says; in verify mode a failing outcome prints FAILURE,
\* the TIME line exactly when failure_time is not None and the point line
\* exactly when failure_point is not None, and a passing outcome prints
\* SUCCESS and no failure line.
C2_CompletedRunExitsZero ==
    /\ AnalysisCompleted => (pc = "done" /\ exit_status = <<0>>)
    /\ (Mode = "verify" /\ pc = "done") =>
          IF output.passed
          THEN /\ "SUCCESS" \in Range(stdout)
               /\ Range(stdout) \cap {"FAILURE", "  TIME  : {}", "  optimized_point : {}"} = {}
          ELSE /\ "FAILURE" \in Range(stdout)
               /\ "SUCCESS" \notin Range(stdout)
               /\ ("  TIME  : {}" \in Range(stdout)) <=> (output.failure_time # <<>>)
               /\ ("  optimized_point : {}" \in Range(stdout)) <=> (output.failure_point # <<>>)

C2_Witness ==
    /\ Mode = "verify"
    /\ pc = "done"
    /\ ~output.passed
    /\ output.failure_time = <<>>
    /\ output.failure_point # <<>>
    /\ exit_status = <<0>>

ParameterCount == Len(configuration.parameters.keys)

\* C3: every margin analysis run() dispatches (margin mode, and the final
\* one of optimize mode) gets min(2 * parameter_count, cpu_count()) workers:
\* never more than cpu_count(), never more than twice the parameters, and
\* one of the two.
C3_MarginWorkerCount ==
    \A i \in DOMAIN analyse_args :
        LET t == analyse_args[i].num_threads
        IN /\ t <= cpus
           /\ t <= 2 * ParameterCount
           /\ (t = cpus \/ t = 2 * ParameterCount)

C3_Witness ==
    /\ Mode = "optimize"
    /\ Len(analyse_args) = 1
    /\ ParameterCount = 1
    /\ cpus = 2
    /\ analyse_args[1].num_threads = 2

\* C4: in yield mode sample() is called with the configured num_samples and
\* with min(num_samples, cpu_count()) workers.
C4_YieldWorkerCount ==
    \A i \in DOMAIN sample_args :
        LET t == sample_args[i].num_threads
            n == sample_args[i].num_samples
        IN /\ n = configuration.num_samples
           /\ t <= cpus
           /\ t <= n
           /\ (t = cpus \/ t = n)

C4_Witness ==
    /\ Len(sample_args) = 1
    /\ sample_args[1].num_samples = 1
    /\ cpus = 2
    /\ sample_args[1].num_threads = 1

\* C5: with a validated configuration whose parameters mapping is empty,
\* margin mode derives zero workers, dispatches no worker-pool task, gets and
\* reports an empty MarginResult and ends without error.
C5_EmptyParametersMargin ==
    (Mode = "margin" /\ configuration.schema_valid /\ ParameterCount = 0) =>
        /\ pc # "exited"
        /\ stderr = <<>>
        /\ \A i \in DOMAIN analyse_args :
              /\ analyse_args[i].num_threads = 0
              /\ analyse_args[i].point = EmptyDict
        /\ margin_tasks = 0
        /\ pc = "done" =>
              /\ Len(analyse_args) = 1
              /\ DOMAIN result = {}
              /\ Len(printed_result) = 1
              /\ DOMAIN printed_result[1] = {}
              /\ exit_status = <<0>>

C5_Witness ==
    /\ Mode = "margin"
    /\ ParameterCount = 0
    /\ pc = "done"
    /\ Len(printed_result) = 1

\* the final margin analysis of optimize mode has been dispatched
FinalAnalysisDispatched == Mode = "optimize" /\ Len(analyse_args) = 1

\* C6: the vector handed to the final margin analysis has the key order of
\* the vector fed to Optimizer.optimize, maps the key at position i to
\* optimized_point[i], and is the mapping that looking each name up by its
\* position gives.
C6_OptimizerAlignment ==
    FinalAnalysisDispatched =>
        LET fed == optimize_arg[1]
            handed == analyse_args[1].point
            n == Len(fed.keys)
        IN /\ \A i, j \in 1..n : i # j => fed.keys[i] # fed.keys[j]
           /\ handed.keys = fed.keys
           /\ Len(optimized_point) = n
           /\ \A i \in 1..n : handed.val[fed.keys[i]] = optimized_point[i]
           /\ handed.val = [k \in Range(fed.keys) |->
                              optimized_point[CHOOSE i \in 1..n : fed.keys[i] = k]]

C6_Witness ==
    /\ FinalAnalysisDispatched
    /\ Len(optimize_arg[1].keys) = 2
    /\ optimized_point[1] # optimized_point[2]
    /\ optimize_arg[1].val[optimize_arg[1].keys[1]] # optimized_point[1]
    /\ analyse_args[1].point.val[optimize_arg[1].keys[2]] = optimized_point[2]

\* the final margin analysis starts after optimize has returned and analyses
\* the optimized point
C7_FinalMarginOnOptimizedPoint ==
    FinalAnalysisDispatched =>
        /\ CallIndex("Optimizer.optimize:return") > 0
        /\ CallIndex("Optimizer.optimize:return") < CallIndex("MarginAnalysis.analyse")
        /\ \A i \in 1..ParameterCount :
              analyse_args[1].point.val[configuration.parameters.keys[i]] = optimized_point[i]

\* the line of run() that prints a point
PointLine == "  optimized_point : {}"

\* C7: in optimize mode the final margin analysis runs after optimize has
\* returned, on the optimized point, and the final report holds both the
\* optimized parameter vector and the margin result for that point (stated
\* for runs with at least one parameter, where there is a vector to print).
C7_FinalReport ==
    /\ C7_FinalMarginOnOptimizedPoint
    /\ (Mode = "optimize" /\ pc = "done" /\ ParameterCount > 0) =>
          /\ printed_result = <<result>>
          /\ PointLine \in Range(stdout)

WriteCall == "write_file_with_updated_parameters"

\* what holds of the netlist writer in every mode, with or without an output path
C8_WriterSafety ==
    /\ Len(written) <= 1
    /\ Len(written) = CallCount(WriteCall)
    /\ written # <<>> =>
          /\ Mode = "optimize"
          /\ CallIndex("Optimizer.optimize:return") > 0
          /\ CallIndex("Optimizer.optimize:return") < CallIndex(WriteCall)
          /\ written[1] = optimized_point

\* C8 as stated: in optimize mode write_file_with_updated_parameters is
\* called exactly once, with the optimized point, after optimize returns; it
\* is never called in another mode nor before optimize has returned.
C8_WriteExactlyOnce ==
    /\ C8_WriterSafety
    /\ (Mode = "optimize" /\ pc = "done") => Len(written) = 1

\* C8 amended: in optimize mode the writer is called exactly once when
\* optimize.output is set and not at all when it is absent; when called, it
\* gets the optimized point, after optimize has returned; it is never called
\* in another mode.
C8_WriteOnceIfOutput ==
    /\ C8_WriterSafety
    /\ written # <<>> => configuration.output # <<>>
    /\ (Mode = "optimize" /\ pc \in {"final_margin", "analysing", "done"}) =>
          Len(written) = (IF configuration.output # <<>> THEN 1 ELSE 0)

C8_Witness ==
    /\ Mode = "optimize"
    /\ pc = "done"
    /\ configuration.output # <<>>
    /\ written = <<optimized_point>>
    /\ Len(optimized_point) = 2

\* samples a worker has finished
Counted == (DOMAIN sample_outcome) \ (pending \cup running)

\* C9: whatever order the workers finish in, the counts are those of the
\* outcomes counted so far; when sample() has returned num_total is the
\* configured num_samples, num_success the number of passing samples, and
\* those are the numbers run() reports.
C9_YieldOrderIndependent ==
    Mode = "yield" =>
        /\ num_total = Cardinality(Counted)
        /\ num_success = Cardinality({i \in Counted : sample_outcome[i]})
        /\ num_success <= num_total
        /\ pc = "done" =>
              /\ num_total = configuration.num_samples
              /\ num_success = Cardinality({i \in 1..configuration.num_samples :
                                               sample_outcome[i]})
              /\ yield_report[1] = num_success
              /\ yield_report[2] = num_total

C9_Witness ==
    /\ Mode = "yield"
    /\ pc = "done"
    /\ cpus = 2
    /\ configuration.num_samples = 3
    /\ num_success = 2
    /\ num_total = 3

\* what each mode's workflow may construct or call
Workflow(m) ==
    CASE m = "verify" -> {"Verifier"}
      [] m = "margin" -> {"MarginAnalysis"}
      [] m = "yield" -> {"YieldAnalysis"}
      [] m = "optimize" -> {"Optimizer", "MarginAnalysis", WriteCall}
      [] OTHER -> {}

\* what a completed workflow has constructed
Required(m) == Workflow(m) \ {WriteCall}

\* C10: on a validated configuration run() executes the one workflow its
\* mode names and touches no component of another; a mode outside the four
\* ends in the assertion failure with no workflow run.
C10_ExclusiveDispatch ==
    Loaded =>
        /\ ComponentsUsed \subseteq Workflow(Mode)
        /\ pc = "done" =>
              /\ Mode \in KnownModes
              /\ Required(Mode) \subseteq ComponentsUsed
        /\ (Mode \notin KnownModes /\ configuration.schema_valid) =>
              /\ calls = <<>>
              /\ pc \in {"validate", "dispatch", "exited"}
              /\ pc = "exited" =>
                    /\ "AssertionError" \in Range(stderr)
                    /\ NonZero(exit_status)

C10_Witness ==
    /\ Loaded
    /\ configuration.schema_valid
    /\ Mode = "sweep"
    /\ pc = "exited"
    /\ stderr = <<"AssertionError">>

====
